---- MODULE Spec2Model ----
(***************************************************************************)
(* A model of CustomDataAnalyzer.py: the cleaning step, the four           *)
(* aggregators, the three plot functions and the main driver.              *)
(*                                                                         *)
(* A DataFrame is a record                                                 *)
(*    [dtypes : column name -> "object" | "number",                        *)
(*     index  : sequence of row labels,                                    *)
(*     rows   : sequence of rows, each a function column name -> value]    *)
(* A value is Null (NaN/None), Str(s) with s a sequence of one-character   *)
(* strings, or Num(v) with v an integer.  A column of dtype "object" holds *)
(* Str and Null values, a column of dtype "number" holds Num and Null.     *)
(***************************************************************************)
EXTENDS Integers, Sequences, FiniteSets, TLC

VARIABLES pc, file, df, hist, n, stats, top_genres, top_movies, year_counts,
          console, figures, log

vars == <<pc, file, df, hist, n, stats, top_genres, top_movies, year_counts,
          console, figures, log>>

(***************************************************************************)
(* Bounds of the model.                                                    *)
(***************************************************************************)
MaxCleanRows == 3
MaxAggRows == 2
MaxYearRows == 3
MaxGenreRows == 3
MaxRatedRows == 2
MaxMainRows == 2
MaxN == 2
MaxCalls == 2

(***************************************************************************)
(* Values.                                                                 *)
(***************************************************************************)
Null == [k |-> "null"]
Str(s) == [k |-> "str", s |-> s]
Num(v) == [k |-> "num", v |-> v]
notna(x) == x.k # "null"

Movie == <<"M", "o", "v", "i", "e">>
TVShow == <<"T", "V", " ", "S", "h", "o", "w">>

Whitespace == {" "}
Digits == <<"0", "1", "2", "3", "4", "5", "6", "7", "8", "9">>

RECURSIVE lstrip(_)
lstrip(s) ==
  IF s # <<>> /\ Head(s) \in Whitespace THEN lstrip(Tail(s)) ELSE s

RECURSIVE rstrip(_)
rstrip(s) ==
  IF s # <<>> /\ s[Len(s)] \in Whitespace
  THEN rstrip(SubSeq(s, 1, Len(s) - 1))
  ELSE s

strip(s) == rstrip(lstrip(s))

\* Series.str.strip on one element: a string is stripped, anything else is NaN.
str_strip(x) == IF x.k = "str" THEN Str(strip(x.s)) ELSE Null

IsDigit(c) == \E d \in 1..Len(Digits) : Digits[d] = c
DigitVal(c) == (CHOOSE d \in 1..Len(Digits) : Digits[d] = c) - 1

RECURSIVE ParseInt(_, _)
ParseInt(s, acc) ==
  IF s = <<>> THEN acc ELSE ParseInt(Tail(s), 10 * acc + DigitVal(Head(s)))

\* pd.to_numeric(errors='coerce') on one element: a number stays, a string of
\* decimal digits parses, the rest is NaN.  clean_data applies it to stripped
\* strings only.
to_numeric(x) ==
  IF x.k = "num" THEN x
  ELSE IF x.k = "str" /\ x.s # <<>> /\ \A i \in 1..Len(x.s) : IsDigit(x.s[i])
       THEN Num(ParseInt(x.s, 0))
       ELSE Null

(***************************************************************************)
(* DataFrames.                                                             *)
(***************************************************************************)
Columns(t) == DOMAIN t.dtypes
Size(t) == Len(t.rows)
empty(t) == Columns(t) = {} \/ Size(t) = 0
EmptyFrame == [dtypes |-> <<>>, index |-> <<>>, rows |-> <<>>]

\* The positions of P within 1..m, ascending.
KeepSeq(P, m) ==
  LET F[i \in 0..m] ==
        IF i = 0 THEN <<>>
        ELSE IF i \in P THEN Append(F[i - 1], i) ELSE F[i - 1]
  IN F[m]

\* Boolean-mask selection df[mask]: the rows at positions P, labels kept.
Select(t, P) ==
  LET ks == KeepSeq(P, Size(t))
  IN [t EXCEPT !.index = [j \in 1..Len(ks) |-> t.index[ks[j]]],
               !.rows = [j \in 1..Len(ks) |-> t.rows[ks[j]]]]

\* df[col] = f(df[col]), the column's dtype becoming dt.
SetColumn(t, col, f(_), dt) ==
  [t EXCEPT !.dtypes = [c \in Columns(t) |-> IF c = col THEN dt ELSE t.dtypes[c]],
            !.rows = [j \in 1..Size(t) |->
                        [c \in Columns(t) |-> IF c = col THEN f(t.rows[j][c])
                                              ELSE t.rows[j][c]]]]

\* DataFrame.drop_duplicates(): the first occurrence of each row is kept.
drop_duplicates(t) ==
  Select(t, {i \in 1..Size(t) : \A j \in 1..(i - 1) : t.rows[j] # t.rows[i]})

\* str_cols loop of clean_data: every object column is stripped.
StripObjectColumns(t) ==
  [t EXCEPT !.rows = [j \in 1..Size(t) |->
                        [c \in Columns(t) |-> IF t.dtypes[c] = "object"
                                              THEN str_strip(t.rows[j][c])
                                              ELSE t.rows[j][c]]]]

\* A clean_data whose title filter was left out.
DropMissingTitle_NoFilter(t) == t

\* if 'title' in df.columns: df = df[df['title'].notna()]
DropMissingTitle(t) ==
  IF "title" \in Columns(t)
  THEN Select(t, {i \in 1..Size(t) : notna(t.rows[i]["title"])})
  ELSE t

\* if 'release_year' in df.columns: df['release_year'] = pd.to_numeric(...)
CoerceReleaseYear(t) ==
  IF "release_year" \in Columns(t)
  THEN SetColumn(t, "release_year", to_numeric, "number")
  ELSE t

clean_data(t) ==
  CoerceReleaseYear(DropMissingTitle(StripObjectColumns(drop_duplicates(t))))

(***************************************************************************)
(* Results of calls: not made yet, raised, or returned a value.            *)
(***************************************************************************)
Unset == [st |-> "unset"]
Raised(exc) == [st |-> "raised", exc |-> exc]
Ok(v) == [st |-> "ok", val |-> v]

(***************************************************************************)
(* Aggregators.  A Series (value_counts result) is a sequence of           *)
(* <<key, count>> pairs.                                                   *)
(***************************************************************************)
Min(a, b) == IF a <= b THEN a ELSE b
Max(a, b) == IF a >= b THEN a ELSE b

\* .head(k) of a sequence: the first k elements; a negative k leaves out the
\* last -k.
head(seq, k) ==
  SubSeq(seq, 1, IF k >= 0 THEN Min(k, Len(seq)) ELSE Max(Len(seq) + k, 0))

\* The injective sequences enumerating the finite set X.
Orderings(X) ==
  {p \in [1..Cardinality(X) -> X] : \A i, j \in 1..Cardinality(X) : i # j => p[i] # p[j]}

\* The non-null values of a column, as a sequence in row order.
ColumnValues(t, col) ==
  LET ks == KeepSeq({i \in 1..Size(t) : notna(t.rows[i][col])}, Size(t))
  IN [j \in 1..Len(ks) |-> t.rows[ks[j]][col]]

RECURSIVE SumSeq(_)
SumSeq(seq) == IF seq = <<>> THEN 0 ELSE Head(seq).v + SumSeq(Tail(seq))

\* Series.mean(): NaN for no value, else the quotient, kept as a fraction.
mean(t, col) ==
  LET xs == ColumnValues(t, col)
  IN IF xs = <<>> THEN Null ELSE [k |-> "ratio", num |-> SumSeq(xs), den |-> Len(xs)]

ScoreColumns == <<"IMDb Score", "IMDB Score", "imdb_score">>
RatingColumns == <<"IMDb Score", "IMDB Score", "imdb_score", "rating">>

\* The first column of the candidate list cands, from position i on, that
\* the table has and that is not in skipped; "" for None.
RECURSIVE FirstColumn(_, _, _, _)
FirstColumn(t, cands, i, skipped) ==
  IF i > Len(cands) THEN ""
  ELSE IF cands[i] \in Columns(t) /\ cands[i] \notin skipped THEN cands[i]
  ELSE FirstColumn(t, cands, i + 1, skipped)

CountEq(t, col, x) == Cardinality({i \in 1..Size(t) : t.rows[i][col] = x})

\* int(df['release_year'].min()) and .max(): min/max skip NaN and give NaN on
\* no value, and int(NaN) raises ValueError.
YearRange(t) ==
  LET ys == {t.rows[i]["release_year"].v :
               i \in {i \in 1..Size(t) : notna(t.rows[i]["release_year"])}}
  IN IF ys = {} THEN Raised("ValueError")
     ELSE Ok([earliest_year |-> CHOOSE y \in ys : \A z \in ys : y <= z,
              latest_year |-> CHOOSE y \in ys : \A z \in ys : y >= z])

summary_stats(t) ==
  LET total == [total_titles |-> Size(t)]
      types == IF "type" \in Columns(t)
               THEN [num_movies |-> CountEq(t, "type", Str(Movie)),
                     num_tv_shows |-> CountEq(t, "type", Str(TVShow))]
               ELSE <<>>
      years == IF "release_year" \in Columns(t) THEN YearRange(t) ELSE Ok(<<>>)
      col == FirstColumn(t, ScoreColumns, 1, {})
      score == IF col # "" THEN [average_imdb_score |-> mean(t, col)] ELSE <<>>
  IN IF years.st = "raised" THEN years
     ELSE Ok(total @@ types @@ years.val @@ score)

\* str.split(','): the pieces of s between commas (one piece, s itself, when
\* s has no comma).
split(s) ==
  LET F[i \in 0..Len(s)] ==
        IF i = 0 THEN <<<<>>>>
        ELSE IF s[i] = "," THEN Append(F[i - 1], <<>>)
        ELSE [F[i - 1] EXCEPT ![Len(F[i - 1])] = Append(@, s[i])]
  IN F[Len(s)]

\* The pieces left as they are: the trailing .str.strip() forgotten.
StripAll_NoStrip(pieces) == pieces

\* .str.strip() on the exploded pieces.
StripAll(pieces) == [j \in 1..Len(pieces) |-> strip(pieces[j])]

\* df[col].str.split(',').explode().str.strip(), without its NaN entries
\* (value_counts drops them): the tags of rows 1..m in order.
RECURSIVE GenreSeries(_, _, _)
GenreSeries(t, col, m) ==
  IF m = 0 THEN <<>>
  ELSE GenreSeries(t, col, m - 1) \o
       (IF t.rows[m][col].k = "str" THEN StripAll(split(t.rows[m][col].s)) ELSE <<>>)

Occurrences(seq, x) == Cardinality({i \in 1..Len(seq) : seq[i] = x})

\* Series.value_counts(): one <<value, count>> per distinct value, counts
\* descending; the order among equal counts is not specified.
value_counts(seq) ==
  LET keys == {seq[i] : i \in 1..Len(seq)}
  IN {[j \in 1..Len(p) |-> <<p[j], Occurrences(seq, p[j])>>] :
        p \in {q \in Orderings(keys) :
                 \A i, j \in 1..Len(q) :
                   i < j => Occurrences(seq, q[i]) >= Occurrences(seq, q[j])}}

GenreColumn(t) ==
  IF "listed_in" \in Columns(t) THEN "listed_in"
  ELSE IF "genre" \in Columns(t) THEN "genre" ELSE ""

\* The results get_top_genres(df, n) can return.
get_top_genres(t, k) ==
  IF GenreColumn(t) # ""
  THEN {head(vc, k) : vc \in value_counts(GenreSeries(t, GenreColumn(t), Size(t)))}
  ELSE {<<>>}

\* The candidates probed in another order: 'imdb_score' first.
RatingColumn_LowercaseFirst(t) ==
  FirstColumn(t, <<"imdb_score", "IMDb Score", "IMDB Score", "rating">>, 1,
              IF "rating" \in Columns(t) /\ t.dtypes["rating"] = "object"
              THEN {"rating"} ELSE {})

\* The rating column get_top_rated_movies picks; "" for None.
RatingColumn(t) ==
  FirstColumn(t, RatingColumns, 1,
              IF "rating" \in Columns(t) /\ t.dtypes["rating"] = "object"
              THEN {"rating"} ELSE {})

\* movies_df without the restriction to type 'Movie'.
MoviesOf_All(t) == t

\* df[df['type'] == 'Movie'] if 'type' in df.columns else df
MoviesOf(t) ==
  IF "type" \in Columns(t)
  THEN Select(t, {i \in 1..Size(t) : t.rows[i]["type"] = Str(Movie)})
  ELSE t

\* The rows of t in the order p of their positions.
Reorder(t, p) ==
  [t EXCEPT !.index = [j \in 1..Len(p) |-> t.index[p[j]]],
            !.rows = [j \in 1..Len(p) |-> t.rows[p[j]]]]

\* sort_values(by=col, ascending=False): values descending, NaN last; the
\* order among equal values is not specified (the default sort is unstable).
sort_values_desc(t, col) ==
  {Reorder(t, p) :
     p \in {q \in Orderings(1..Size(t)) :
              \A i, j \in 1..Size(t) :
                i < j => LET a == t.rows[q[i]][col]
                             b == t.rows[q[j]][col]
                         IN /\ a = Null => b = Null
                            /\ (a # Null /\ b # Null) => a.v >= b.v}}

HeadFrame(t, k) ==
  Select(t, 1..(IF k >= 0 THEN Min(k, Size(t)) ELSE Max(Size(t) + k, 0)))

\* The results get_top_rated_movies(df, n) can return.
get_top_rated_movies(t, k) ==
  IF RatingColumn(t) # ""
  THEN {HeadFrame(s, k) : s \in sort_values_desc(MoviesOf(t), RatingColumn(t))}
  ELSE {EmptyFrame}

\* The elements of the finite set of integers X, ascending.
RECURSIVE SortedSeq(_)
SortedSeq(X) ==
  IF X = {} THEN <<>>
  ELSE LET m == CHOOSE y \in X : \A z \in X : y <= z
       IN <<m>> \o SortedSeq(X \ {m})

\* Year counts with the NaN rows counted into the first bucket.
get_year_counts_CountNull(t) ==
  IF "release_year" \in Columns(t)
  THEN LET ys == SortedSeq({t.rows[i]["release_year"].v :
                              i \in {i \in 1..Size(t) : notna(t.rows[i]["release_year"])}})
       IN [j \in 1..Len(ys) |->
             <<ys[j], CountEq(t, "release_year", Num(ys[j])) +
                      (IF j = 1 THEN CountEq(t, "release_year", Null) ELSE 0)>>]
  ELSE <<>>

\* df['release_year'].value_counts().sort_index(): NaN is not counted.
get_year_counts(t) ==
  IF "release_year" \in Columns(t)
  THEN LET ys == SortedSeq({t.rows[i]["release_year"].v :
                              i \in {i \in 1..Size(t) : notna(t.rows[i]["release_year"])}})
       IN [j \in 1..Len(ys) |-> <<ys[j], CountEq(t, "release_year", Num(ys[j]))>>]
  ELSE <<>>

(***************************************************************************)
(* Input tables: every table over a schema with at most MaxRows rows.  A   *)
(* schema gives each column its dtype and the values drawn for it.         *)
(***************************************************************************)
RECURSIVE RowSet(_)
\* All rows over the columns of vals, vals[c] being the values of column c.
RowSet(vals) ==
  IF DOMAIN vals = {} THEN {<<>>}
  ELSE LET c == CHOOSE x \in DOMAIN vals : TRUE
           rest == [x \in DOMAIN vals \ {c} |-> vals[x]]
       IN {(c :> v) @@ r : v \in vals[c], r \in RowSet(rest)}

\* pd.read_csv labels the rows 0, 1, 2, ... (a RangeIndex).
Frame(dts, rs) ==
  [dtypes |-> dts, index |-> [j \in 1..Len(rs) |-> j - 1], rows |-> rs]

\* t is a table over one of the schemas, with at most max rows (and no row
\* when it has no column).
IsTableOf(schemas, max, t) ==
  \E s \in schemas :
    \E m \in IF DOMAIN s.dtypes = {} THEN {0} ELSE 0..max :
      \E rs \in [1..m -> RowSet(s.vals)] : t = Frame(s.dtypes, rs)

\* The schemas over a pool of optional columns: pool[c] is the set of
\* <<dtype, values>> alternatives of column c.
RECURSIVE SchemasOver(_)
SchemasOver(pool) ==
  IF DOMAIN pool = {} THEN {[dtypes |-> <<>>, vals |-> <<>>]}
  ELSE LET c == CHOOSE x \in DOMAIN pool : TRUE
           rest == SchemasOver([x \in DOMAIN pool \ {c} |-> pool[x]])
       IN rest \cup {[dtypes |-> (c :> a[1]) @@ s.dtypes, vals |-> (c :> a[2]) @@ s.vals] :
                       a \in pool[c], s \in rest}

TitleValues == {Null, Str(<<"A">>), Str(<<" ", "A">>)}
YearText == {Null, Str(<<"2", "0">>), Str(<<"2", "x">>)}
YearNumbers == {Null, Num(20), Num(21)}

CleanPool ==
  [title |-> {<<"object", TitleValues>>},
   release_year |-> {<<"object", YearText>>, <<"number", YearNumbers>>},
   type |-> {<<"object", {Str(Movie), Str(<<" ">> \o Movie)}>>}]

CleanSchemas == SchemasOver(CleanPool)

(***************************************************************************)
(* SpecClean: clean_data applied to a table, then to its own output.       *)
(***************************************************************************)
InitClean ==
  /\ pc = "clean_data"
  /\ IsTableOf(CleanSchemas, MaxCleanRows, df)
  /\ hist = <<df>>
  /\ file = Unset
  /\ n = 0
  /\ stats = Unset
  /\ top_genres = Unset
  /\ top_movies = Unset
  /\ year_counts = Unset
  /\ console = <<>>
  /\ figures = <<>>
  /\ log = <<>>

\* df = clean_data(df); hist records the argument and every result.
CleanData ==
  /\ pc = "clean_data"
  /\ Len(hist) <= MaxCalls
  /\ df' = clean_data(df)
  /\ hist' = Append(hist, df')
  /\ UNCHANGED <<pc, file, n, stats, top_genres, top_movies, year_counts,
                 console, figures, log>>

NextClean == CleanData

SpecClean == InitClean /\ [][NextClean]_vars

\* The positions of the rows of t that repeat no earlier row.
FirstOccurrences(t) ==
  {i \in 1..Size(t) : \A j \in 1..(i - 1) : t.rows[j] # t.rows[i]}

Labels(t) == {t.index[j] : j \in 1..Size(t)}
Ascending(seq) == \A i, j \in 1..Len(seq) : i < j => seq[i] < seq[j]

\* C1 (as claimed): clean_data(clean_data(T)) has the rows of clean_data(T),
\* in the same order, for every input table T.
C1_Idempotent ==
  Len(hist) >= 3 => hist[3].rows = hist[2].rows

\* C7: with a title column no output row of clean_data has a null title and
\* exactly the deduplicated input rows whose title is present are kept, in
\* their original order; without a title column the output has as many rows
\* as the deduplicated input.
C7_RequiredTitle ==
  \A k \in 1..(Len(hist) - 1) :
    LET T == hist[k]
        O == hist[k + 1]
    IN IF "title" \in Columns(T)
       THEN /\ \A j \in 1..Size(O) : O.rows[j]["title"] # Null
            /\ Labels(O) = {T.index[i] : i \in {i \in FirstOccurrences(T) :
                                                   T.rows[i]["title"] # Null}}
            /\ Ascending(O.index)
       ELSE /\ Size(O) = Cardinality(FirstOccurrences(T))
            /\ O.index = [j \in 1..Size(O) |-> T.index[KeepSeq(FirstOccurrences(T), Size(T))[j]]]

\* C7 witness: a first clean_data call that dropped a null-title row, dropped
\* a duplicate and kept a titled row.
C7_Witness ==
  /\ Len(hist) = 2
  /\ "title" \in Columns(hist[1])
  /\ Size(hist[1]) = 3
  /\ Size(hist[2]) = 1
  /\ \E i \in 1..3 : hist[1].rows[i]["title"] = Null
  /\ Cardinality(FirstOccurrences(hist[1])) = 2

(***************************************************************************)
(* The aggregators, each applied to a cleaned table.  file is the table as *)
(* loaded, df the table clean_data made of it; pc names the function that  *)
(* returned.                                                               *)
(***************************************************************************)
InitCleaned(schemas, max) ==
  /\ pc = "ready"
  /\ IsTableOf(schemas, max, file)
  /\ df = clean_data(file)
  /\ hist = <<>>
  /\ n = 0
  /\ stats = Unset
  /\ top_genres = Unset
  /\ top_movies = Unset
  /\ year_counts = Unset
  /\ console = <<>>
  /\ figures = <<>>
  /\ log = <<>>

SummaryStats ==
  /\ pc = "ready"
  /\ stats' = summary_stats(df)
  /\ pc' = "summary_stats"
  /\ UNCHANGED <<file, df, hist, n, top_genres, top_movies, year_counts,
                 console, figures, log>>

TopGenres ==
  /\ pc = "ready"
  /\ \E k \in 0..MaxN :
       /\ n' = k
       /\ \E r \in get_top_genres(df, k) : top_genres' = Ok(r)
  /\ pc' = "get_top_genres"
  /\ UNCHANGED <<file, df, hist, stats, top_movies, year_counts,
                 console, figures, log>>

TopRated ==
  /\ pc = "ready"
  /\ \E k \in 0..MaxN :
       /\ n' = k
       /\ \E r \in get_top_rated_movies(df, k) : top_movies' = Ok(r)
  /\ pc' = "get_top_rated_movies"
  /\ UNCHANGED <<file, df, hist, stats, top_genres, year_counts,
                 console, figures, log>>

YearCounts ==
  /\ pc = "ready"
  /\ year_counts' = Ok(get_year_counts(df))
  /\ pc' = "get_year_counts"
  /\ UNCHANGED <<file, df, hist, n, stats, top_genres, top_movies,
                 console, figures, log>>

AggPool ==
  [type |-> {<<"object", {Str(Movie), Str(TVShow)}>>},
   release_year |-> {<<"object", {Str(<<"2", "0">>), Str(<<"2", "x">>)}>>,
                     <<"number", {Null, Num(20), Num(21)}>>},
   listed_in |-> {<<"object", {Str(<<"D">>), Str(<<"D", ",", "C">>)}>>},
   imdb_score |-> {<<"number", {Null, Num(7)}>>}]

InitAgg == InitCleaned(SchemasOver(AggPool), MaxAggRows)
NextAgg == SummaryStats \/ TopGenres \/ TopRated \/ YearCounts
SpecAgg == InitAgg /\ [][NextAgg]_vars

YearPool ==
  [type |-> {<<"object", {Str(Movie), Str(TVShow)}>>},
   release_year |-> {<<"object", {Str(<<"2", "1">>), Str(<<"2", "0">>), Str(<<"2", "x">>)}>>,
                     <<"number", {Null, Num(20), Num(21)}>>}]

InitYears == InitCleaned(SchemasOver(YearPool), MaxYearRows)
NextYears == YearCounts
SpecYears == InitYears /\ [][NextYears]_vars

GenrePool ==
  [listed_in |-> {<<"object", {Null, Str(<<"D">>),
                               Str(<<"D", ",", " ", "C", ",", " ", "D">>),
                               Str(<<"C", " ", ",", "E">>)}>>},
   genre |-> {<<"object", {Str(<<"C">>), Str(<<"E", ",", "C">>)}>>}]

InitGenres == InitCleaned(SchemasOver(GenrePool), MaxGenreRows)
NextGenres == TopGenres
SpecGenres == InitGenres /\ [][NextGenres]_vars

RatedPool ==
  ("type" :> {<<"object", {Str(Movie), Str(TVShow)}>>}) @@
  ("IMDb Score" :> {<<"number", {Num(1), Num(2)}>>}) @@
  ("IMDB Score" :> {<<"number", {Num(1)}>>}) @@
  ("imdb_score" :> {<<"number", {Null, Num(1), Num(2)}>>}) @@
  ("rating" :> {<<"object", {Str(<<"P", "G">>), Str(<<"R">>)}>>,
                <<"number", {Num(1), Num(2)}>>})

InitRated == InitCleaned(SchemasOver(RatedPool), MaxRatedRows)
NextRated == TopRated
SpecRated == InitRated /\ [][NextRated]_vars

(***************************************************************************)
(* The plot functions: figures is the sequence of figures plt.figure made. *)
(***************************************************************************)
Keys(series) == [j \in 1..Len(series) |-> series[j][1]]
Counts(series) == [j \in 1..Len(series) |-> series[j][2]]
Column(t, col) == [j \in 1..Size(t) |-> t.rows[j][col]]

\* plot_genre_distribution: a bar chart, whatever the series holds.
plot_genre_distribution(figs, series) ==
  Append(figs, [kind |-> "bar", x |-> Keys(series), y |-> Counts(series),
                title |-> <<"Top", Len(series), "Genres on Netflix">>])

\* plot_top_rated_movies: nothing for an empty frame, else a horizontal bar
\* chart of the rating column by title (by row label without a title column).
plot_top_rated_movies(figs, frame) ==
  IF empty(frame) THEN figs
  ELSE Append(figs, [kind |-> "barh",
                     x |-> IF "title" \in Columns(frame) THEN Column(frame, "title")
                           ELSE frame.index,
                     y |-> Column(frame, RatingColumn(frame)),
                     title |-> <<"Top", Size(frame), "Rated Movies">>])

\* plot_yearly_content: nothing for an empty series, else a line chart.
plot_yearly_content(figs, series) ==
  IF series = <<>> THEN figs
  ELSE Append(figs, [kind |-> "line", x |-> Keys(series), y |-> Counts(series),
                     title |-> <<"Netflix Content Count by Year">>])

(***************************************************************************)
(* main: pc is the step to run next; log has one entry per call made, with *)
(* its argument; console has the lines printed.                            *)
(***************************************************************************)
TopN == 10
Missing == [error |-> "FileNotFoundError"]
Notice == <<"Visualizations generated (not displayed in this environment).">>

MainPool ==
  [title |-> {<<"object", {Null, Str(<<"A">>)}>>},
   type |-> {<<"object", {Str(Movie), Str(TVShow)}>>},
   release_year |-> {<<"object", {Str(<<"2", "0">>), Str(<<"2", "x">>)}>>},
   listed_in |-> {<<"object", {Str(<<"D", ",", "C">>)}>>},
   imdb_score |-> {<<"number", {Num(7), Num(8)}>>}]

\* The file at data_path: absent, or a CSV that pd.read_csv turns into a table.
Init ==
  /\ pc = "load_data"
  /\ file = Missing \/ IsTableOf(SchemasOver(MainPool), MaxMainRows, file)
  /\ df = Unset
  /\ hist = <<>>
  /\ n = TopN
  /\ stats = Unset
  /\ top_genres = Unset
  /\ top_movies = Unset
  /\ year_counts = Unset
  /\ console = <<>>
  /\ figures = <<>>
  /\ log = <<>>

Call(step, arg) == [step |-> step, arg |-> arg]

\* df = load_data(data_path): pd.read_csv raises on an absent file and the
\* exception leaves main.
LoadData ==
  /\ pc = "load_data"
  /\ log' = Append(log, Call("load_data", "netflix_titles.csv"))
  /\ IF file = Missing
     THEN pc' = "aborted" /\ df' = df
     ELSE pc' = "clean_data" /\ df' = file
  /\ UNCHANGED <<file, hist, n, stats, top_genres, top_movies, year_counts,
                 console, figures>>

\* main without its clean_data call.
CleanStep_Skipped ==
  /\ pc = "clean_data"
  /\ pc' = "summary_stats"
  /\ UNCHANGED <<file, df, hist, n, stats, top_genres, top_movies, year_counts,
                 console, figures, log>>

\* df = clean_data(df)
CleanStep ==
  /\ pc = "clean_data"
  /\ log' = Append(log, Call("clean_data", df))
  /\ df' = clean_data(df)
  /\ pc' = "summary_stats"
  /\ UNCHANGED <<file, hist, n, stats, top_genres, top_movies, year_counts,
                 console, figures>>

\* The lines main prints for the stats mapping.
StatsLines(st) ==
  <<<<"Summary Statistics:">>, <<"- Total titles:", st["total_titles"]>>>> \o
  (IF "num_movies" \in DOMAIN st
   THEN <<<<"- Movies:", st["num_movies"], "| TV Shows:", st["num_tv_shows"]>>>>
   ELSE <<>>) \o
  (IF "earliest_year" \in DOMAIN st /\ "latest_year" \in DOMAIN st
   THEN <<<<"- Year range:", st["earliest_year"], "to", st["latest_year"]>>>>
   ELSE <<>>) \o
  (IF "average_imdb_score" \in DOMAIN st
   THEN <<<<"- Average IMDb Score:", st["average_imdb_score"]>>>>
   ELSE <<>>) \o
  <<<<"">>>>

\* stats = summary_stats(df) and its printing; an exception leaves main.
StatsStep ==
  /\ pc = "summary_stats"
  /\ log' = Append(log, Call("summary_stats", df))
  /\ stats' = summary_stats(df)
  /\ IF stats'.st = "raised"
     THEN pc' = "aborted" /\ console' = console
     ELSE pc' = "get_top_genres" /\ console' = console \o StatsLines(stats'.val)
  /\ UNCHANGED <<file, df, hist, n, top_genres, top_movies, year_counts, figures>>

\* top_genres = get_top_genres(df, n=10) and its printing.
GenresStep ==
  /\ pc = "get_top_genres"
  /\ log' = Append(log, Call("get_top_genres", df))
  /\ \E r \in get_top_genres(df, TopN) :
       /\ top_genres' = Ok(r)
       /\ console' = console \o <<<<"Top 10 Genres by Number of Titles:">>>> \o
                     [j \in 1..Len(r) |-> <<r[j][1], ":", r[j][2]>>] \o <<<<"">>>>
  /\ pc' = "get_top_rated_movies"
  /\ UNCHANGED <<file, df, hist, n, stats, top_movies, year_counts, figures>>

\* The lines main prints for the top-rated frame.
RatedLines(frame) ==
  IF ~empty(frame)
  THEN <<<<"Top 10 Rated Movies:">>>> \o
       [j \in 1..Size(frame) |->
          <<IF "title" \in Columns(frame) THEN frame.rows[j]["title"] ELSE frame.index[j],
            "(Rating:",
            IF RatingColumn(frame) # "" THEN frame.rows[j][RatingColumn(frame)] ELSE Null>>]
  ELSE <<<<"No numeric rating column found in dataset to identify top-rated movies.">>>>

\* top_movies = get_top_rated_movies(df, n=10) and its printing.
RatedStep ==
  /\ pc = "get_top_rated_movies"
  /\ log' = Append(log, Call("get_top_rated_movies", df))
  /\ \E r \in get_top_rated_movies(df, TopN) :
       /\ top_movies' = Ok(r)
       /\ console' = console \o RatedLines(r) \o <<<<"">>>>
  /\ pc' = "get_year_counts"
  /\ UNCHANGED <<file, df, hist, n, stats, top_genres, year_counts, figures>>

\* The year with the largest count, the first such year.
idxmax(series) ==
  series[CHOOSE j \in 1..Len(series) :
           /\ \A i \in 1..Len(series) : series[i][2] <= series[j][2]
           /\ \A i \in 1..(j - 1) : series[i][2] < series[j][2]]

\* year_counts = get_year_counts(df) and its printing.
YearsStep ==
  /\ pc = "get_year_counts"
  /\ log' = Append(log, Call("get_year_counts", df))
  /\ year_counts' = Ok(get_year_counts(df))
  /\ console' = console \o
                (IF year_counts'.val # <<>>
                 THEN <<<<"Year with most releases:", idxmax(year_counts'.val)[1],
                          idxmax(year_counts'.val)[2]>>>>
                 ELSE <<>>) \o <<<<"">>>>
  /\ pc' = "plot_genre_distribution"
  /\ UNCHANGED <<file, df, hist, n, stats, top_genres, top_movies, figures>>

PlotGenres ==
  /\ pc = "plot_genre_distribution"
  /\ log' = Append(log, Call("plot_genre_distribution", top_genres.val))
  /\ figures' = plot_genre_distribution(figures, top_genres.val)
  /\ pc' = "plot_top_rated_movies"
  /\ UNCHANGED <<file, df, hist, n, stats, top_genres, top_movies, year_counts, console>>

PlotTopRated ==
  /\ pc = "plot_top_rated_movies"
  /\ log' = Append(log, Call("plot_top_rated_movies", top_movies.val))
  /\ figures' = plot_top_rated_movies(figures, top_movies.val)
  /\ pc' = "plot_yearly_content"
  /\ UNCHANGED <<file, df, hist, n, stats, top_genres, top_movies, year_counts, console>>

\* plot_yearly_content(year_counts), then the closing print of main.
PlotYearly ==
  /\ pc = "plot_yearly_content"
  /\ log' = Append(log, Call("plot_yearly_content", year_counts.val))
  /\ figures' = plot_yearly_content(figures, year_counts.val)
  /\ console' = Append(console, Notice)
  /\ pc' = "done"
  /\ UNCHANGED <<file, df, hist, n, stats, top_genres, top_movies, year_counts>>

Next ==
  \/ LoadData
  \/ CleanStep
  \/ StatsStep
  \/ GenresStep
  \/ RatedStep
  \/ YearsStep
  \/ PlotGenres
  \/ PlotTopRated
  \/ PlotYearly

Spec == Init /\ [][Next]_vars

(***************************************************************************)
(* Claims about the aggregators.                                           *)
(***************************************************************************)
NonNullRows(t, col) == {i \in 1..Size(t) : t.rows[i][col] # Null}

\* C2 (as claimed): on a cleaned table whose release_year column is all null
\* (zero rows included) summary_stats returns a mapping with total_titles
\* and without earliest_year and latest_year; it does not raise.
C2_AllNullYearsOmitted ==
  (/\ pc = "summary_stats"
   /\ "release_year" \in Columns(df)
   /\ NonNullRows(df, "release_year") = {})
  => /\ stats.st = "ok"
     /\ "total_titles" \in DOMAIN stats.val
     /\ "earliest_year" \notin DOMAIN stats.val
     /\ "latest_year" \notin DOMAIN stats.val

\* C3 (as claimed): on a table with zero rows, whatever its columns,
\* get_top_genres, get_top_rated_movies and get_year_counts return an empty
\* result and summary_stats returns exactly {total_titles: 0}.
C3_EmptyInput ==
  Size(df) = 0 =>
    /\ pc = "get_top_genres" => top_genres = Ok(<<>>)
    /\ pc = "get_top_rated_movies" => (top_movies.st = "ok" /\ empty(top_movies.val))
    /\ pc = "get_year_counts" => year_counts = Ok(<<>>)
    /\ pc = "summary_stats" => stats = Ok([total_titles |-> 0])

RECURSIVE SumCounts(_)
SumCounts(series) ==
  IF series = <<>> THEN 0 ELSE Head(series)[2] + SumCounts(Tail(series))

\* C8: with a release_year column get_year_counts has one entry per distinct
\* non-null year, holding the number of rows of that year, keys strictly
\* ascending, the counts summing to the number of rows with a non-null year;
\* without the column it is empty.
C8_YearCounts ==
  pc = "get_year_counts" =>
    LET yc == year_counts.val
    IN IF "release_year" \in Columns(df)
       THEN /\ {yc[j][1] : j \in 1..Len(yc)} =
                 {df.rows[i]["release_year"].v : i \in NonNullRows(df, "release_year")}
            /\ \A j \in 1..Len(yc) :
                 yc[j][2] = Cardinality({i \in NonNullRows(df, "release_year") :
                                           df.rows[i]["release_year"].v = yc[j][1]})
            /\ \A i, j \in 1..Len(yc) : i < j => yc[i][1] < yc[j][1]
            /\ SumCounts(yc) = Cardinality(NonNullRows(df, "release_year"))
       ELSE yc = <<>>

\* C8 witness: two year buckets and a row with a null year, so that the
\* counts sum to less than the number of rows.
C8_Witness ==
  /\ pc = "get_year_counts"
  /\ "release_year" \in Columns(df)
  /\ Len(year_counts.val) = 2
  /\ SumCounts(year_counts.val) < Size(df)

\* The column the priority order 'IMDb Score', 'IMDB Score', 'imdb_score',
\* 'rating' selects, a text 'rating' never being selected; "" for none.
ExpectedRatingColumn(t) ==
  IF "IMDb Score" \in Columns(t) THEN "IMDb Score"
  ELSE IF "IMDB Score" \in Columns(t) THEN "IMDB Score"
  ELSE IF "imdb_score" \in Columns(t) THEN "imdb_score"
  ELSE IF "rating" \in Columns(t) /\ t.dtypes["rating"] # "object" THEN "rating"
  ELSE ""

\* a is strictly greater than b, as ratings (NaN compares with nothing).
Greater(a, b) == a # Null /\ b # Null /\ a.v > b.v

RankedBy(t, col) ==
  \A i, j \in 1..Size(t) : i < j => ~Greater(t.rows[j][col], t.rows[i][col])

\* C4: get_top_rated_movies ranks by the first present column in the order
\* 'IMDb Score', 'IMDB Score', 'imdb_score', 'rating', never by a text
\* 'rating' column; with no usable column the result is empty.
C4_RatingColumn ==
  pc = "get_top_rated_movies" =>
    /\ top_movies.st = "ok"
    /\ RatingColumn(df) = ExpectedRatingColumn(df)
    /\ IF ExpectedRatingColumn(df) = ""
       THEN empty(top_movies.val)
       ELSE RankedBy(top_movies.val, ExpectedRatingColumn(df))

\* C4 witness: a text 'rating' column beside a numeric 'imdb_score', two
\* rows returned with different scores.
C4_Witness ==
  /\ pc = "get_top_rated_movies"
  /\ Columns(df) = {"rating", "imdb_score"}
  /\ df.dtypes["rating"] = "object"
  /\ Size(top_movies.val) = 2
  /\ Greater(top_movies.val.rows[1]["imdb_score"], top_movies.val.rows[2]["imdb_score"])

\* The positions of the rows get_top_rated_movies ranks.
Eligible(t) ==
  IF "type" \in Columns(t)
  THEN {i \in 1..Size(t) : t.rows[i]["type"] = Str(Movie)}
  ELSE 1..Size(t)

\* C5: with a usable rating column get_top_rated_movies(T, n) returns at
\* most n rows of T, each with all its columns, each of type 'Movie' when T
\* has a type column, in non-increasing order of rating, and no eligible row
\* left out has a rating strictly greater than a returned one.
C5_TopRated ==
  (pc = "get_top_rated_movies" /\ ExpectedRatingColumn(df) # "") =>
    LET R == top_movies.val
        col == ExpectedRatingColumn(df)
    IN /\ Size(R) <= n
       /\ R.dtypes = df.dtypes
       /\ \A i, j \in 1..Size(R) : i # j => R.index[i] # R.index[j]
       /\ \A j \in 1..Size(R) :
            \E i \in Eligible(df) : df.index[i] = R.index[j] /\ df.rows[i] = R.rows[j]
       /\ "type" \in Columns(df) => \A j \in 1..Size(R) : R.rows[j]["type"] = Str(Movie)
       /\ RankedBy(R, col)
       /\ \A i \in Eligible(df) :
            df.index[i] \notin Labels(R) =>
              \A j \in 1..Size(R) : ~Greater(df.rows[i][col], R.rows[j][col])

\* C5 witness: n = 1, a type column, two movies with different ratings, the
\* better one returned.
C5_Witness ==
  /\ pc = "get_top_rated_movies"
  /\ n = 1
  /\ "type" \in Columns(df)
  /\ Cardinality(Eligible(df)) = 2
  /\ Size(top_movies.val) = 1
  /\ \E i \in Eligible(df) :
       Greater(top_movies.val.rows[1][ExpectedRatingColumn(df)],
               df.rows[i][ExpectedRatingColumn(df)])

\* The number of times tag occurs among the trimmed comma-separated pieces
\* of the string s: a piece is a maximal comma-free stretch s[a..b].
PieceCount(s, tag) ==
  Cardinality({ab \in (1..(Len(s) + 1)) \X (0..Len(s)) :
                 /\ ab[1] <= ab[2] + 1
                 /\ ab[1] = 1 \/ s[ab[1] - 1] = ","
                 /\ ab[2] = Len(s) \/ s[ab[2] + 1] = ","
                 /\ \A i \in ab[1]..ab[2] : s[i] # ","
                 /\ strip(SubSeq(s, ab[1], ab[2])) = tag})

RECURSIVE TagCount(_, _, _, _)
TagCount(t, col, m, tag) ==
  IF m = 0 THEN 0
  ELSE TagCount(t, col, m - 1, tag) +
       (IF t.rows[m][col] = Null THEN 0 ELSE PieceCount(t.rows[m][col].s, tag))

\* The trimmed tags of column col.
Tags(t, col) ==
  UNION {{strip(SubSeq(t.rows[i][col].s, a, b)) :
            a \in 1..(Len(t.rows[i][col].s) + 1), b \in 0..Len(t.rows[i][col].s)} :
         i \in NonNullRows(t, col)}

FigureKinds == {figures[j].kind : j \in 1..Len(figures)}

\* C9 (as claimed): plot_genre_distribution, plot_top_rated_movies and
\* plot_yearly_content, called with an empty view, create no figure.
C9_NoFigureForEmptyView ==
  \A k \in 1..Len(log) :
    /\ (log[k].step = "plot_genre_distribution" /\ log[k].arg = <<>>)
         => "bar" \notin FigureKinds
    /\ (log[k].step = "plot_top_rated_movies" /\ empty(log[k].arg))
         => "barh" \notin FigureKinds
    /\ (log[k].step = "plot_yearly_content" /\ log[k].arg = <<>>)
         => "line" \notin FigureKinds

Steps ==
  <<"load_data", "clean_data", "summary_stats", "get_top_genres",
    "get_top_rated_movies", "get_year_counts", "plot_genre_distribution",
    "plot_top_rated_movies", "plot_yearly_content">>

\* C10: main calls the steps in the fixed order load, clean, the four
\* aggregators, the three plots, each at most once; a failed load ends the
\* run with nothing cleaned, aggregated, printed or drawn; clean_data reads
\* the loaded table, every aggregator reads the cleaned table and every plot
\* the view computed from it; the run ends early only on a failed step, and
\* a run that came to its end printed the closing notice last.
C10_DriverOrder ==
  /\ Len(log) <= Len(Steps)
  /\ \A k \in 1..Len(log) : log[k].step = Steps[k]
  /\ file = Missing =>
       /\ Len(log) <= 1
       /\ df = Unset /\ stats = Unset /\ top_genres = Unset
       /\ top_movies = Unset /\ year_counts = Unset
       /\ console = <<>> /\ figures = <<>>
  /\ Len(log) >= 2 => log[2].arg = file
  /\ \A k \in 3..6 : k <= Len(log) => log[k].arg = clean_data(file)
  /\ Len(log) >= 7 => log[7].arg \in get_top_genres(clean_data(file), TopN)
  /\ Len(log) >= 8 => log[8].arg \in get_top_rated_movies(clean_data(file), TopN)
  /\ Len(log) >= 9 => log[9].arg = get_year_counts(clean_data(file))
  /\ pc = "aborted" => (file = Missing \/ stats.st = "raised")
  /\ \A k \in 1..Len(console) : console[k] = Notice => (k = Len(console) /\ pc = "done")
  /\ pc = "done" =>
       /\ Len(log) = Len(Steps)
       /\ console # <<>>
       /\ console[Len(console)] = Notice

\* C10 witness: a run that came to its end, whose clean_data removed a row
\* and whose three plots each made a figure.
C10_Witness ==
  /\ pc = "done"
  /\ Size(df) < Size(file)
  /\ Len(figures) = 3

====
